---- MODULE Spec2Model ----
(***************************************************************************)
(* Model of desw_bitcoin.py: the bitcoind plugin of desw.                  *)
(*                                                                         *)
(* State: the ledger store tables this module reads and writes (Credit,   *)
(* HWBalance), the process-wide lastblock watermark, and the part of the   *)
(* bitcoind daemon that the RPC calls observe (chain height, the wallet's  *)
(* transactions, the amount sent).  One action per entry point:            *)
(* main("transaction", txid), main("block", _), process_receive,           *)
(* adjust_hwbalance, send_to_address, plus the daemon's own steps and the  *)
(* start of a fresh process.  validate_address, a pure function, has a     *)
(* specification of its own that draws its arguments at the start, and     *)
(* process_receive is also run by two processes at once, one step per      *)
(* query and per commit.                                                   *)
(*                                                                         *)
(* A commit may fail wherever the code guards one with try/except (and in  *)
(* process_credit); the store fails at most MaxFaults of them in a run.    *)
(* The daemon reports confirmations from the chain: a transaction is       *)
(* unknown, in the mempool or mined at some height, and a run follows one  *)
(* transaction of the wallet (either TxA or TxB).                          *)
(***************************************************************************)
EXTENDS Integers, Sequences, FiniteSets, TLC

VARIABLES
    credits,    \* rows of the Credit table, in insertion order
    origin,     \* history: origin[i] is the ref_id credits[i] was created with
    hwb,        \* rows of the HWBalance table, ordered by their time column
    lastblock,  \* the module global lastblock
    height,     \* daemon: getinfo()['blocks']
    incl,       \* daemon: per wallet transaction, -1 unknown, 0 in mempool, h>0 mined at h
    sent,       \* daemon: the sendtoaddress calls it accepted, [txid, address, amount]
    faults,     \* store: the number of commits that have failed
    adjusts,    \* the number of calls made to adjust_hwbalance by itself
    procs,      \* the invocations of process_receive running side by side
    ev          \* history: the call that was made last, its inputs and outcome

vars == <<credits, origin, hwb, lastblock, height, incl, sent, faults, adjusts, procs, ev>>

----------------------------------------------------------------------------
\* Bounds of the model.
MaxHeight == 2
MaxCredits == 4
MaxRows == 4
MaxSends == 1
MaxFaults == 1
MaxAdjusts == 1

\* Configuration and module constants.
CONFS == 1
NETWORK == "Bitcoin"
CURRENCIES == <<"BTC">>
\* An optional argument: None, or Some(n) for the number n.
None == << >>
Some(n) == <<n>>

\* str.lower() on the network names that occur.
Lower(s) == IF s = "Bitcoin" THEN "bitcoin" ELSE s

----------------------------------------------------------------------------
\* The daemon's wallet transactions.  A txid is a string, modelled as a
\* sequence of characters so that formatting and splitting are computed.
TxA == <<"a">>
TxB == <<"b">>
Txids == {TxA, TxB}

Put(c, a, n) == [category |-> c, address |-> a, amount |-> n]

Details(t) ==
    IF t = TxA
    THEN << Put("receive", "k1", 1) >>
    ELSE << Put("receive", "u1", 1), Put("receive", "k1", 2),
            Put("send", "x1", 1), Put("generate", "k1", 3),
            Put("receive", "k2", 1) >>

\* The Address table (read-only here): address -> user_id.
Addresses == [a \in {"k1", "k2"} |-> IF a = "k1" THEN 1 ELSE 2]

Confirmations(t) == IF incl[t] > 0 THEN height - incl[t] + 1 ELSE 0

\* client.gettransaction(txid) for a transaction the wallet knows.
GetTransaction(t) ==
    [txid |-> t, confirmations |-> Confirmations(t), details |-> Details(t)]

RECURSIVE SumSeq(_)
SumSeq(s) == IF s = << >> THEN 0 ELSE Head(s) + SumSeq(Tail(s))

\* What the wallet has sent through sendtoaddress.
Spent == SumSeq([k \in DOMAIN sent |-> sent[k].amount])

RECURSIVE Received(_, _)
Received(ts, minIncl) ==
    IF ts = {} THEN 0
    ELSE LET t == CHOOSE x \in ts : TRUE
             d == Details(t)
             mine == SumSeq([p \in 1..Len(d) |->
                        IF d[p].category = "receive" THEN d[p].amount ELSE 0])
         IN (IF incl[t] >= minIncl THEN mine ELSE 0) + Received(ts \ {t}, minIncl)

\* The wallet's funds at the daemon.
Funds == 10
\* client.getinfo()
GetInfo == [blocks |-> height, balance |-> Funds + Received(Txids, 1) - Spent]
\* client.getbalance("*", 0)
GetBalanceRpc == Funds + Received(Txids, 0) - Spent

----------------------------------------------------------------------------
\* "%s:%s" % (txid, p) for an index p below 10.
Digit(p) == CASE p = 0 -> "0" [] p = 1 -> "1" [] p = 2 -> "2" [] p = 3 -> "3"
              [] p = 4 -> "4" [] p = 5 -> "5" [] p = 6 -> "6" [] p = 7 -> "7"
              [] p = 8 -> "8" [] p = 9 -> "9"
\* The same counting the outputs from 1.
FormatRef_onebased(txid, p) == txid \o <<":">> \o <<Digit(p + 1)>>
FormatRef(txid, p) == txid \o <<":">> \o <<Digit(p)>>

\* ref_id.split(':')[0] or ref_id
RECURSIVE UpToColon(_)
UpToColon(s) ==
    IF s = << >> \/ Head(s) = ":" THEN << >> ELSE <<Head(s)>> \o UpToColon(Tail(s))
SplitTxid(ref) == IF UpToColon(ref) = << >> THEN ref ELSE UpToColon(ref)

----------------------------------------------------------------------------
\* Address texts, as sequences of characters of at most MaxLen.  The first
\* character is the version ("1": BTC, "m": XTN, "L": LTC), the last one the
\* check character, which repeats the first; "0" is not a base58 character.
MaxLen == 3
NETCODES == <<"BTC", "XTN">>
Alphabet == {"1", "m", "L", "0"}
AddressTexts == UNION {[1..n -> Alphabet] : n \in 0..MaxLen}
Networks == {None, Some("BTC"), Some("XTN"), Some("LTC"), Some("Bitcoin")}

\* Whether the text is base58check: base58 characters and a matching check.
Decodable(a) ==
    /\ Len(a) >= 2
    /\ \A k \in DOMAIN a : a[k] # "0"
    /\ a[Len(a)] = a[1]
\* The netcode of the version of a decodable text.
Netcode(a) == CASE a[1] = "1" -> "BTC" [] a[1] = "m" -> "XTN" [] a[1] = "L" -> "LTC"

\* pycoin's is_address_valid(address, allowable_netcodes=allowable): the
\* netcode of a decodable address if it is allowed, None otherwise; on a
\* text it cannot decode the library returns None or raises (raises).
is_address_valid(address, allowable, raises) ==
    IF ~Decodable(address)
    THEN [raised |-> raises, value |-> None]
    ELSE IF \E k \in DOMAIN allowable : allowable[k] = Netcode(address)
    THEN [raised |-> FALSE, value |-> Some(Netcode(address))]
    ELSE [raised |-> FALSE, value |-> None]

\* validate_address not comparing the netcode with the network asked for.
validate_address_anynet(address, network, raises) ==
    LET r == is_address_valid(address, NETCODES, raises)
    IN IF r.raised THEN [raised |-> FALSE, ret |-> FALSE]
       ELSE [raised |-> FALSE, ret |-> r.value # None]

\* validate_address(address, network): what it returns and whether it raises.
validate_address(address, network, raises) ==
    LET r == is_address_valid(address, NETCODES, raises)
    IN IF r.raised THEN [raised |-> FALSE, ret |-> FALSE]
       ELSE IF r.value = None \/ (network # None /\ r.value # network)
       THEN [raised |-> FALSE, ret |-> FALSE]
       ELSE [raised |-> FALSE, ret |-> TRUE]

----------------------------------------------------------------------------
\* Index of the row get_balance and adjust_hwbalance select: the latest row of
\* this network (0 when there is none).
LatestHwb(rows) ==
    LET mine == {i \in DOMAIN rows : rows[i].network = Lower(NETWORK)}
    IN IF mine = {} THEN 0 ELSE CHOOSE i \in mine : \A j \in mine : j <= i

\* get_balance()
get_balance(rows) ==
    [total |-> rows[LatestHwb(rows)].total, available |-> rows[LatestHwb(rows)].available]

\* The constructor taking total before available.
HWBalance_swapped(a, t, c, n) == [available |-> t, total |-> a, currency |-> c, network |-> n]

\* wm.HWBalance(available, total, currency, network)
HWBalance(a, t, c, n) == [available |-> a, total |-> t, currency |-> c, network |-> n]

\* The handlers below work on st = [credits, hwb, log, calls]: the two tables,
\* the messages given to logger, and the calls made to confirm_send and
\* process_receive by main.
Logged(st, msg) == [st EXCEPT !.log = Append(@, msg)]

\* adjust_hwbalance writing a new row instead of changing the latest one.
adjust_hwbalance_append(st, available, total, ok) ==
    IF available = None /\ total = None THEN st
    ELSE LET i == LatestHwb(st.hwb)
             a == IF available # None THEN st.hwb[i].available + available[1]
                  ELSE st.hwb[i].available
             t == IF total # None THEN st.hwb[i].total + total[1] ELSE st.hwb[i].total
         IN IF ok
            THEN [st EXCEPT !.hwb = Append(@, [st.hwb[i] EXCEPT !.available = a,
                                                               !.total = t])]
            ELSE Logged(st, <<"exception", "adjust_hwbalance">>)

\* adjust_hwbalance adding the total's delta to available.
adjust_hwbalance_swapped(st, available, total, ok) ==
    IF available = None /\ total = None THEN st
    ELSE LET i == LatestHwb(st.hwb)
             a == IF total # None THEN st.hwb[i].available + total[1]
                  ELSE st.hwb[i].available
             t == IF total # None THEN st.hwb[i].total + total[1] ELSE st.hwb[i].total
         IN IF ok
            THEN [st EXCEPT !.hwb[i] = [@ EXCEPT !.available = a, !.total = t]]
            ELSE Logged(st, <<"exception", "adjust_hwbalance">>)

\* adjust_hwbalance leaving its change in place when the commit fails.
adjust_hwbalance_dirty(st, available, total, ok) ==
    IF available = None /\ total = None THEN st
    ELSE LET i == LatestHwb(st.hwb)
             a == IF available # None THEN st.hwb[i].available + available[1]
                  ELSE st.hwb[i].available
             t == IF total # None THEN st.hwb[i].total + total[1] ELSE st.hwb[i].total
             new == [st EXCEPT !.hwb[i] = [@ EXCEPT !.available = a, !.total = t]]
         IN IF ok THEN new ELSE Logged(new, <<"exception", "adjust_hwbalance">>)

\* adjust_hwbalance(available, total); ok: whether ses.commit() succeeds.  The
\* latest row is changed in place; a failed commit is logged and rolled back.
adjust_hwbalance(st, available, total, ok) ==
    IF available = None /\ total = None THEN st
    ELSE LET i == LatestHwb(st.hwb)
             a == IF available # None THEN st.hwb[i].available + available[1]
                  ELSE st.hwb[i].available
             t == IF total # None THEN st.hwb[i].total + total[1] ELSE st.hwb[i].total
         IN IF ok
            THEN [st EXCEPT !.hwb[i] = [@ EXCEPT !.available = a, !.total = t]]
            ELSE Logged(st, <<"exception", "adjust_hwbalance">>)

\* process_credit refusing a ref_id that a Credit already has.
process_credit_unique(st, c, ok) ==
    IF ok /\ \A i \in DOMAIN st.credits : st.credits[i].ref_id # c.ref_id
    THEN [st EXCEPT !.credits = Append(@, c)]
    ELSE Logged(st, <<"exception", "process_credit">>)

\* desw.process_credit(...), the ledger's credit-creation entry point, as called
\* from process_receive with the Credit's fields c; ok: whether its commit
\* succeeds.
process_credit(st, c, ok) ==
    IF ok THEN [st EXCEPT !.credits = Append(@, c)]
    ELSE Logged(st, <<"exception", "process_credit">>)

\* creds.count() > 0 for the Credits with this ref_id.
Known(creds, txid) == Cardinality({i \in DOMAIN creds : creds[i].ref_id = txid}) > 0

\* process_receive without the lookup of the ref_id.
process_receive_nolookup(st, txid, details, confirmed, okC, okB) ==
    IF details.address \notin DOMAIN Addresses
    THEN Logged(st, <<"address not known. returning.">>)
    ELSE adjust_hwbalance(
            process_credit(Logged(st, <<"crediting txid", txid>>),
                [amount |-> details.amount, address |-> details.address,
                 currency |-> CURRENCIES[1], network |-> NETWORK,
                 transaction_state |-> IF confirmed THEN "complete" ELSE "unconfirmed",
                 reference |-> "tx received", ref_id |-> txid,
                 user_id |-> Addresses[details.address]], okC),
            None, Some(details.amount), okB)

\* process_receive adjusting the balance before it looks the address up.
process_receive_early(st, txid, details, confirmed, okC, okB) ==
    IF Known(st.credits, txid) THEN Logged(st, <<"txid already known. returning.">>)
    ELSE IF details.address \notin DOMAIN Addresses
    THEN adjust_hwbalance(Logged(st, <<"address not known. returning.">>),
                          None, Some(details.amount), okB)
    ELSE adjust_hwbalance(
            process_credit(Logged(st, <<"crediting txid", txid>>),
                [amount |-> details.amount, address |-> details.address,
                 currency |-> CURRENCIES[1], network |-> NETWORK,
                 transaction_state |-> IF confirmed THEN "complete" ELSE "unconfirmed",
                 reference |-> "tx received", ref_id |-> txid,
                 user_id |-> Addresses[details.address]], okC),
            None, Some(details.amount), okB)

\* process_receive(txid, details, confirmed); okC, okB: whether the commits of
\* process_credit and of adjust_hwbalance succeed.
process_receive(st, txid, details, confirmed, okC, okB) ==
    IF Known(st.credits, txid) THEN Logged(st, <<"txid already known. returning.">>)
    ELSE IF details.address \notin DOMAIN Addresses
    THEN Logged(st, <<"address not known. returning.">>)
    ELSE LET c == [amount |-> details.amount, address |-> details.address,
                   currency |-> CURRENCIES[1], network |-> NETWORK,
                   transaction_state |-> IF confirmed THEN "complete" ELSE "unconfirmed",
                   reference |-> "tx received", ref_id |-> txid,
                   user_id |-> Addresses[details.address]]
         IN adjust_hwbalance(
                process_credit(Logged(st, <<"crediting txid", txid>>), c, okC),
                None, Some(details.amount), okB)

\* The loop round handing every output that is not a send to process_receive.
DispatchPut_others(st, txid, put, p, confirmed, okC, okB) ==
    IF put.category = "send"
    THEN [st EXCEPT !.calls = Append(@, [fn |-> "confirm_send", address |-> put.address,
                                         amount |-> put.amount,
                                         ref_id |-> FormatRef(txid, p)])]
    ELSE process_receive(
            [st EXCEPT !.calls = Append(@, [fn |-> "process_receive",
                                            txid |-> FormatRef(txid, p),
                                            details |-> put, confirmed |-> confirmed])],
            FormatRef(txid, p), put, confirmed, okC, okB)

\* One round of the loop over txd['details'] in the transaction branch of main.
DispatchPut(st, txid, put, p, confirmed, okC, okB) ==
    IF put.category = "send"
    THEN [st EXCEPT !.calls = Append(@, [fn |-> "confirm_send", address |-> put.address,
                                         amount |-> put.amount,
                                         ref_id |-> FormatRef(txid, p)])]
    ELSE IF put.category = "receive"
    THEN process_receive(
            [st EXCEPT !.calls = Append(@, [fn |-> "process_receive",
                                            txid |-> FormatRef(txid, p),
                                            details |-> put, confirmed |-> confirmed])],
            FormatRef(txid, p), put, confirmed, okC, okB)
    ELSE st

\* for p, put in enumerate(txd['details']), from index p on.
RECURSIVE Dispatch(_, _, _, _, _, _)
Dispatch(st, txid, txd, p, okC, okB) ==
    IF p >= Len(txd.details) THEN st
    ELSE Dispatch(DispatchPut(st, txid, txd.details[p + 1], p,
                              txd.confirmations >= CONFS, okC[p], okB[p]),
                  txid, txd, p + 1, okC, okB)

\* The Credits the block branch of main selects.
Selected(cred) == cred.transaction_state = "unconfirmed" /\ cred.network = NETWORK

\* for p, put in enumerate(txd['details']): cred.ref_id = "%s:%s" % (txd['txid'], p)
RECURSIVE RewriteRef(_, _, _)
RewriteRef(ref, txd, p) ==
    IF p >= Len(txd.details) THEN ref
    ELSE RewriteRef(FormatRef(txd.txid, p), txd, p + 1)

\* The loop body completing the Credit whatever the daemon reports.
ConfirmCredit_always(cred) ==
    LET txd == GetTransaction(SplitTxid(cred.ref_id))
    IN [cred EXCEPT !.transaction_state = "complete",
                    !.ref_id = RewriteRef(cred.ref_id, txd, 0)]

\* The loop body confirming only above the threshold.
ConfirmCredit_above(cred) ==
    LET txd == GetTransaction(SplitTxid(cred.ref_id))
    IN IF txd.confirmations > CONFS
       THEN [cred EXCEPT !.transaction_state = "complete",
                         !.ref_id = RewriteRef(cred.ref_id, txd, 0)]
       ELSE cred

\* One round of the loop over the selected Credits in the block branch of main.
ConfirmCredit(cred) ==
    LET txd == GetTransaction(SplitTxid(cred.ref_id))
    IN IF txd.confirmations >= CONFS
       THEN [cred EXCEPT !.transaction_state = "complete",
                         !.ref_id = RewriteRef(cred.ref_id, txd, 0)]
       ELSE cred

\* The loop setting the state of every Credit of this network from what the
\* daemon reports now.
ConfirmCredits_resync(creds, ok) ==
    IF ok
    THEN [i \in DOMAIN creds |->
            IF creds[i].network # NETWORK THEN creds[i]
            ELSE IF GetTransaction(SplitTxid(creds[i].ref_id)).confirmations >= CONFS
            THEN ConfirmCredit(creds[i])
            ELSE [creds[i] EXCEPT !.transaction_state = "unconfirmed"]]
    ELSE creds

\* The loop and its commit keeping the updates when the commit fails.
ConfirmCredits_kept(creds, ok) ==
    [i \in DOMAIN creds |->
        IF Selected(creds[i]) THEN ConfirmCredit(creds[i]) ELSE creds[i]]

\* The loop over the selected Credits and the commit of its updates in the
\* block branch of main; ok: whether the commit succeeds.  A failed commit is
\* rolled back: every Credit is as it was.
ConfirmCredits(creds, ok) ==
    IF ok
    THEN [i \in DOMAIN creds |->
            IF Selected(creds[i]) THEN ConfirmCredit(creds[i]) ELSE creds[i]]
    ELSE creds

\* The stale block guard with < for <=.
StaleBlock_strict(info) == info.blocks < lastblock

\* The stale block guard of main.
StaleBlock(info) == info.blocks <= lastblock

\* client.sendtoaddress raises when the wallet's balance does not cover the
\* amount; otherwise the daemon makes a transaction and names it.
DaemonAccepts(amount) == amount > 0 /\ amount <= GetInfo.balance
NewTxid == <<"s", Digit(Len(sent))>>

\* send_to_address forgetting the total.
send_to_address_available(st, txid, amount, ok) ==
    [st |-> adjust_hwbalance(st, Some(-amount), None, ok), ret |-> txid]

\* send_to_address(address, amount) once the daemon has returned txid: the
\* balance adjustment and the value returned; ok: whether the commit succeeds.
send_to_address(st, txid, amount, ok) ==
    [st |-> adjust_hwbalance(st, Some(-amount), Some(-amount), ok), ret |-> txid]

\* send_to_address adjusting the balance before it asks the daemon.
send_to_address_prepaid(st, amount) ==
    adjust_hwbalance(st, Some(-amount), Some(-amount), TRUE)

\* send_to_address(address, amount) when client.sendtoaddress raises: the error
\* leaves the function at once, before the balance adjustment.
send_to_address_raised(st, amount) == st

----------------------------------------------------------------------------
\* The invocations of process_receive that may run at the same time, each in
\* a process of its own.
Procs == {1, 2}

ForeignCredit ==
    [amount |-> 1, address |-> "e1", currency |-> "ETH", network |-> "Ethereum",
     transaction_state |-> "unconfirmed", reference |-> "tx received",
     ref_id |-> <<"e", ":", "0">>, user_id |-> 1]

Init ==
    /\ credits = << ForeignCredit >>
    /\ origin = << ForeignCredit.ref_id >>
    /\ hwb = << HWBalance(Funds - 1, Funds - 1, CURRENCIES[1], Lower(NETWORK)),
                HWBalance(Funds, Funds, CURRENCIES[1], Lower(NETWORK)),
                HWBalance(Funds + 1, Funds + 1, "ETH", "ethereum") >>
    /\ lastblock = 0
    /\ height = 1
    /\ incl = [t \in Txids |-> -1]
    /\ sent = << >>
    /\ faults = 0
    /\ adjusts = 0
    /\ procs = [i \in Procs |-> [pc |-> "idle"]]
    /\ ev = [op |-> "start"]

Tables == [credits |-> credits, hwb |-> hwb, log |-> << >>, calls |-> << >>]

\* The commits that failed during a call, one logged exception each.
Failed(log) == Cardinality({i \in DOMAIN log : log[i][1] = "exception"})
\* The store fails at most MaxFaults commits.
MayFail(oks) == Cardinality({x \in DOMAIN oks : ~oks[x]}) <= MaxFaults - faults

\* The ref_id each Credit was created with: Credits are only ever appended.
OriginOf(new) ==
    [i \in DOMAIN new |-> IF i <= Len(origin) THEN origin[i] ELSE new[i].ref_id]

RecvPos(t) == {p \in 0..(Len(Details(t)) - 1) : Details(t)[p + 1].category = "receive"}
CommitOks(t, f) == [p \in 0..(Len(Details(t)) - 1) |-> IF p \in RecvPos(t) THEN f[p] ELSE TRUE]

\* main(["transaction", t])
TxNotify(t) ==
    /\ incl[t] >= 0
    /\ \E fC, fB \in [RecvPos(t) -> BOOLEAN] :
         LET txd == GetTransaction(t)
             oks == <<fC, fB>>
             st == Dispatch(Tables, t, txd, 0, CommitOks(t, fC), CommitOks(t, fB))
         IN /\ \A k \in 1..2 : MayFail(oks[k])
            /\ Len(st.credits) <= MaxCredits
            /\ Failed(st.log) <= MaxFaults - faults
            /\ credits' = st.credits
            /\ origin' = OriginOf(st.credits)
            /\ hwb' = st.hwb
            /\ faults' = faults + Failed(st.log)
            /\ ev' = [op |-> "transaction", txid |-> t, log |-> st.log, calls |-> st.calls]
    /\ UNCHANGED <<lastblock, height, incl, sent, adjusts, procs>>

\* main(["block", _]); okC, okS: whether the commit of the Credit updates and
\* the commit of the new snapshot succeed (only the first failure is logged).
BlockNotify(okC, okS) ==
    LET info == GetInfo
    IN IF StaleBlock(info)
       THEN /\ ev' = [op |-> "block", log |-> << >>]
            /\ UNCHANGED <<credits, origin, hwb, lastblock, height, incl, sent, faults, adjusts, procs>>
       ELSE /\ Len(hwb) < MaxRows
            /\ MayFail(<<okC, okS>>)
            /\ faults' = faults + Cardinality({k \in 1..2 : ~<<okC, okS>>[k]})
            /\ lastblock' = info.blocks
            /\ credits' = ConfirmCredits(credits, okC)
            /\ hwb' = IF okS
                      THEN Append(hwb, HWBalance(info.balance, GetBalanceRpc,
                                                 CURRENCIES[1], Lower(NETWORK)))
                      ELSE hwb
            /\ ev' = [op |-> "block",
                      log |-> IF okC THEN << >> ELSE << <<"exception", "main">> >>]
            /\ UNCHANGED <<origin, height, incl, sent, adjusts, procs>>

\* process_receive called by itself, for receive output p of a transaction of
\* the wallet.
CallProcessReceive(t, p, confirmed, okC, okB) ==
    /\ incl[t] >= 0
    /\ LET st == process_receive(Tables, FormatRef(t, p), Details(t)[p + 1],
                                 confirmed, okC, okB)
       IN /\ MayFail(<<okC, okB>>)
          /\ Len(st.credits) <= MaxCredits
          /\ faults' = faults + Failed(st.log)
          /\ credits' = st.credits
          /\ origin' = OriginOf(st.credits)
          /\ hwb' = st.hwb
          /\ ev' = [op |-> "process_receive", txid |-> FormatRef(t, p),
                    details |-> Details(t)[p + 1], confirmed |-> confirmed,
                    log |-> st.log]
    /\ UNCHANGED <<lastblock, height, incl, sent, adjusts, procs>>

\* adjust_hwbalance called by itself.
CallAdjust(available, total, ok) ==
    /\ LET st == adjust_hwbalance(Tables, available, total, ok)
       IN /\ MayFail(<<ok>>)
          /\ adjusts < MaxAdjusts
          /\ adjusts' = adjusts + 1
          /\ faults' = faults + Failed(st.log)
          /\ hwb' = st.hwb
          /\ ev' = [op |-> "adjust_hwbalance", available |-> available,
                    total |-> total, log |-> st.log]
    /\ UNCHANGED <<credits, origin, lastblock, height, incl, sent, procs>>

\* send_to_address(address, amount); ok: whether the commit in adjust_hwbalance
\* succeeds.  The daemon names the transaction it creates.
SendToAddress(address, amount, ok) ==
    IF DaemonAccepts(amount)
    THEN /\ Len(sent) < MaxSends
         /\ LET r == send_to_address(Tables, NewTxid, amount, ok)
            IN /\ MayFail(<<ok>>)
               /\ faults' = faults + Failed(r.st.log)
               /\ sent' = Append(sent, [txid |-> NewTxid, address |-> address,
                                        amount |-> amount])
               /\ hwb' = r.st.hwb
               /\ ev' = [op |-> "send_to_address", address |-> address,
                         amount |-> amount, raised |-> FALSE, ret |-> r.ret,
                         log |-> r.st.log]
         /\ UNCHANGED <<credits, origin, lastblock, height, incl, adjusts, procs>>
    ELSE /\ hwb' = send_to_address_raised(Tables, amount).hwb
         /\ ev' = [op |-> "send_to_address", address |-> address,
                   amount |-> amount, raised |-> TRUE]
         /\ UNCHANGED <<credits, origin, lastblock, height, incl, sent, faults, adjusts, procs>>

\* A new process: the module is loaded again and lastblock = 0.
Start ==
    /\ lastblock # 0
    /\ lastblock' = 0
    /\ ev' = [op |-> "start"]
    /\ UNCHANGED <<credits, origin, hwb, height, incl, sent, faults, adjusts, procs>>

\* A run follows one transaction of the wallet: none has been broadcast yet.
NoneBroadcast == \A u \in Txids : incl[u] = -1

\* The daemon: a transaction of the wallet reaches its mempool.
Broadcast(t) ==
    /\ NoneBroadcast
    /\ incl' = [incl EXCEPT ![t] = 0]
    /\ ev' = [op |-> "daemon"]
    /\ UNCHANGED <<credits, origin, hwb, lastblock, height, sent, faults, adjusts, procs>>

\* The daemon: a block is connected, holding the mempool transactions in S.
MineBlock(S) ==
    /\ height < MaxHeight
    /\ \A t \in S : incl[t] = 0
    /\ height' = height + 1
    /\ incl' = [t \in Txids |-> IF t \in S THEN height + 1 ELSE incl[t]]
    /\ ev' = [op |-> "daemon"]
    /\ UNCHANGED <<credits, origin, hwb, lastblock, sent, faults, adjusts, procs>>

\* The daemon: the tip is replaced by a block of the same height without t.
Reorg(t) ==
    /\ incl[t] = height
    /\ incl' = [incl EXCEPT ![t] = 0]
    /\ ev' = [op |-> "daemon"]
    /\ UNCHANGED <<credits, origin, hwb, lastblock, height, sent, faults, adjusts, procs>>

Daemon ==
    \/ \E t \in Txids : Broadcast(t)
    \/ \E S \in SUBSET Txids : MineBlock(S)
    \/ \E t \in Txids : Reorg(t)

Notifications ==
    \/ \E t \in Txids : TxNotify(t)
    \/ \E okC, okS \in BOOLEAN : BlockNotify(okC, okS)
    \/ Start

Deltas == {None, Some(-1), Some(1)}
SendAmounts == {1, 20}

Calls ==
    \/ \E t \in Txids : \E p \in RecvPos(t) :
         \E confirmed, okC, okB \in BOOLEAN : CallProcessReceive(t, p, confirmed, okC, okB)
    \/ \E a, t \in Deltas : \E ok \in BOOLEAN : CallAdjust(a, t, ok)
    \/ \E amount \in SendAmounts : \E ok \in BOOLEAN : SendToAddress("x1", amount, ok)

\* What bitcoind's walletnotify and blocknotify drive: main, one notification
\* at a time.
Next == Daemon \/ Notifications
Spec == Init /\ [][Next]_vars

\* The plugin's functions as desw calls them.
NextCalls == (\E t \in Txids : Broadcast(t)) \/ Calls
SpecCalls == Init /\ [][NextCalls]_vars

\* validate_address called with the arguments drawn at the start.
CallValidate(raises) ==
    /\ ev.op = "args"
    /\ LET r == validate_address(ev.address, ev.network, raises)
       IN ev' = [op |-> "validate_address", address |-> ev.address,
                 network |-> ev.network, raised |-> r.raised, ret |-> r.ret]
    /\ UNCHANGED <<credits, origin, hwb, lastblock, height, incl, sent, faults, adjusts, procs>>

\* The validator alone: any address text, any network argument.
InitValidate ==
    /\ credits = << ForeignCredit >>
    /\ origin = << ForeignCredit.ref_id >>
    /\ hwb = << HWBalance(Funds, Funds, CURRENCIES[1], Lower(NETWORK)) >>
    /\ lastblock = 0
    /\ height = 1
    /\ incl = [t \in Txids |-> -1]
    /\ sent = << >>
    /\ faults = 0
    /\ adjusts = 0
    /\ procs = [i \in Procs |-> [pc |-> "idle"]]
    /\ \E a \in AddressTexts : \E n \in Networks :
          ev = [op |-> "args", address |-> a, network |-> n]
NextValidate == \E raises \in BOOLEAN : CallValidate(raises)
SpecValidate == InitValidate /\ [][NextValidate]_vars

----------------------------------------------------------------------------
\* process_receive run by two processes at once, each with a session of its
\* own: every query and every commit is a step of its own.

\* The Credit process_receive hands to process_credit.
NewCredit(txid, details, confirmed) ==
    [amount |-> details.amount, address |-> details.address,
     currency |-> CURRENCIES[1], network |-> NETWORK,
     transaction_state |-> IF confirmed THEN "complete" ELSE "unconfirmed",
     reference |-> "tx received", ref_id |-> txid,
     user_id |-> Addresses[details.address]]

\* Process i is called for output p of t and looks up the ref_id and the
\* address: it returns at once, or goes on to credit.
RecvCheck(i, t, p, confirmed) ==
    /\ procs[i].pc = "idle"
    /\ incl[t] >= 0
    /\ LET txid == FormatRef(t, p)
           details == Details(t)[p + 1]
           passed == ~Known(credits, txid) /\ details.address \in DOMAIN Addresses
       IN procs' = [procs EXCEPT ![i] =
                      [pc |-> IF passed THEN "checked" ELSE "done", txid |-> txid,
                       details |-> details, confirmed |-> confirmed,
                       passed |-> passed]]
    /\ ev' = [op |-> "step", proc |-> i]
    /\ UNCHANGED <<credits, origin, hwb, lastblock, height, incl, sent, faults, adjusts>>

\* Process i calls process_credit; okC: whether its commit succeeds.
RecvCredit(i, okC) ==
    /\ procs[i].pc = "checked"
    /\ MayFail(<<okC>>)
    /\ LET c == NewCredit(procs[i].txid, procs[i].details, procs[i].confirmed)
           st == process_credit(Tables, c, okC)
       IN /\ credits' = st.credits
          /\ origin' = OriginOf(st.credits)
          /\ faults' = faults + Failed(st.log)
          /\ procs' = [procs EXCEPT ![i] =
                         [@ EXCEPT !.pc = "credited"] @@ [inserted |-> okC]]
    /\ ev' = [op |-> "step", proc |-> i]
    /\ UNCHANGED <<hwb, lastblock, height, incl, sent, adjusts>>

\* Process i, in adjust_hwbalance, queries the latest snapshot.
RecvAdjustRead(i) ==
    /\ procs[i].pc = "credited"
    /\ procs' = [procs EXCEPT ![i] = [@ EXCEPT !.pc = "read"] @@ [seen |-> hwb]]
    /\ ev' = [op |-> "step", proc |-> i]
    /\ UNCHANGED <<credits, origin, hwb, lastblock, height, incl, sent, faults, adjusts>>

\* Process i commits the row it changed: the total it computed from what it
\* read is written to that row; okB: whether the commit succeeds.
RecvAdjustCommit(i, okB) ==
    /\ procs[i].pc = "read"
    /\ MayFail(<<okB>>)
    /\ LET k == LatestHwb(procs[i].seen)
           st == adjust_hwbalance([Tables EXCEPT !.hwb = procs[i].seen],
                                  None, Some(procs[i].details.amount), okB)
       IN /\ hwb' = IF Failed(st.log) = 0
                    THEN [hwb EXCEPT ![k].total = st.hwb[k].total]
                    ELSE hwb
          /\ faults' = faults + Failed(st.log)
    /\ procs' = [procs EXCEPT ![i] = [@ EXCEPT !.pc = "done"]]
    /\ ev' = [op |-> "step", proc |-> i]
    /\ UNCHANGED <<credits, origin, lastblock, height, incl, sent, adjusts>>

Steps ==
    \/ \E i \in Procs : \E t \in Txids : \E p \in RecvPos(t) :
          \E confirmed \in BOOLEAN : RecvCheck(i, t, p, confirmed)
    \/ \E i \in Procs : \E okC \in BOOLEAN : RecvCredit(i, okC)
    \/ \E i \in Procs : RecvAdjustRead(i)
    \/ \E i \in Procs : \E okB \in BOOLEAN : RecvAdjustCommit(i, okB)

NextConcurrent == (\E t \in Txids : Broadcast(t)) \/ Steps
SpecConcurrent == Init /\ [][NextConcurrent]_vars

----------------------------------------------------------------------------
\* Properties.

CountRef(creds, ref) == Cardinality({i \in DOMAIN creds : creds[i].ref_id = ref})
Balance(rows) == get_balance(rows)

\* C1: two calls of process_receive in sequence with the same reference id and
\* the same details, the address known and no commit failing, leave exactly one
\* Credit with that id: the second call finds it, creates nothing and does not
\* adjust the balance again.
C1_SecondReceiveIsNoOp ==
    [][(/\ ev.op = "process_receive" /\ ev'.op = "process_receive"
        /\ ev'.txid = ev.txid /\ ev'.details = ev.details
        /\ ev.details.address \in DOMAIN Addresses
        /\ Failed(ev.log) = 0 /\ Failed(ev'.log) = 0)
       => /\ credits' = credits
          /\ hwb' = hwb
          /\ CountRef(credits', ev.txid) = 1]_vars

\* The second of two such calls has returned and one Credit carries the id.
C1_Witness ==
    /\ ev.op = "process_receive"
    /\ ev.details.address \in DOMAIN Addresses
    /\ ev.log = << <<"txid already known. returning.">> >>
    /\ CountRef(credits, ev.txid) = 1
    /\ \E i \in DOMAIN origin : origin[i] = ev.txid

\* C2: no two Credits have the same ref_id.
C2_UniqueRefIds ==
    \A i, j \in DOMAIN credits : i # j => credits[i].ref_id # credits[j].ref_id

\* C3: each receive output paid to a known address is credited at most once,
\* however often its transaction is notified and whatever block notifications
\* come in between: no two Credits were created for the same output.
C3_CreditedOnce ==
    \A i, j \in DOMAIN origin : i # j => origin[i] # origin[j]

\* The transactions with exactly one output, a receive to a known address.
SingleReceive(t) ==
    /\ Len(Details(t)) = 1
    /\ Details(t)[1].category = "receive"
    /\ Details(t)[1].address \in DOMAIN Addresses

\* A transaction notification for t that C4 is about, and what C4 says of it.
C4Case(t) ==
    /\ ev'.op = "transaction" /\ ev'.txid = t
    /\ SingleReceive(t)
    /\ Confirmations(t) < CONFS
    /\ CountRef(credits, FormatRef(t, 0)) = 0
C4Effect(t) ==
    /\ Len(credits') = Len(credits) + 1
    /\ \A i \in DOMAIN credits : credits'[i] = credits[i]
    /\ credits'[Len(credits')].ref_id = t \o <<":", "0">>
    /\ credits'[Len(credits')].transaction_state = "unconfirmed"
    /\ Balance(hwb').total = Balance(hwb).total + Details(t)[1].amount
    /\ Balance(hwb').available = Balance(hwb).available

Due(cred) ==
    /\ cred.transaction_state = "unconfirmed" /\ cred.network = "Bitcoin"
    /\ Confirmations(SplitTxid(cred.ref_id)) >= CONFS
C5Once ==
    \A i \in DOMAIN credits :
        credits[i].transaction_state = "complete" => credits'[i] = credits[i]

C6_StaleBlockChangesNothing ==
    [][(ev'.op = "block" /\ height <= lastblock)
       => credits' = credits /\ hwb' = hwb /\ lastblock' = lastblock]_vars

\* A block notification has been handled at the height seen before, while a
\* Credit was waiting that a fresh notification would have completed.
C6_Witness ==
    /\ ev.op = "block" /\ ev.log = << >> /\ lastblock = height
    /\ \E i \in DOMAIN credits : Due(credits[i])

\* The value of an optional delta.
Delta(x) == IF x = << >> THEN 0 ELSE x[1]
\* The row that is the current balance: the last one of this network.
Current(rows) ==
    CHOOSE i \in DOMAIN rows :
        /\ rows[i].network = "bitcoin"
        /\ \A j \in DOMAIN rows : j > i => rows[j].network # "bitcoin"
C7Case == ev'.op = "adjust_hwbalance"
C7None == ev'.available = << >> /\ ev'.total = << >>

C8_BalanceAfterAdjust ==
    [][(ev'.op = "adjust_hwbalance" /\ Failed(ev'.log) = 0)
       => /\ get_balance(hwb').available
                = get_balance(hwb).available + Delta(ev'.available)
          /\ get_balance(hwb').total = get_balance(hwb).total + Delta(ev'.total)
          /\ hwb'[LatestHwb(hwb')].network = hwb[LatestHwb(hwb)].network
          /\ hwb'[LatestHwb(hwb')].currency = hwb[LatestHwb(hwb)].currency]_vars

\* adjust_hwbalance(None, -1) has succeeded: the total is one less.
C8_Witness ==
    /\ ev.op = "adjust_hwbalance" /\ ev.available = << >> /\ ev.total = <<-1>>
    /\ ev.log = << >>
    /\ get_balance(hwb) = [total |-> Funds - 1, available |-> Funds]

\* C9: send_to_address(address, amount) that the daemon accepted and whose
\* commit succeeded returns the daemon's txid and decreases available and total
\* of the current balance by amount each; no Credit is created or changed.
C9_SendDecrementsBoth ==
    [][(ev'.op = "send_to_address" /\ ~ev'.raised /\ Failed(ev'.log) = 0)
       => /\ Len(sent') = Len(sent) + 1
          /\ ev'.ret = sent'[Len(sent')].txid
          /\ get_balance(hwb').available = get_balance(hwb).available - ev'.amount
          /\ get_balance(hwb').total = get_balance(hwb).total - ev'.amount
          /\ credits' = credits]_vars

\* A send has succeeded.
C9_Witness ==
    /\ ev.op = "send_to_address" /\ ~ev.raised /\ ev.log = << >>
    /\ Len(sent) = 1 /\ ev.ret = sent[1].txid /\ ev.amount = 1

\* The outputs of t that are receives to an address that is not known.
Unknown(t) ==
    {p \in 0..(Len(Details(t)) - 1) :
        /\ Details(t)[p + 1].category = "receive"
        /\ Details(t)[p + 1].address \notin {"k1", "k2"}}
\* The amounts of the receive outputs of t that are due a Credit.
RECURSIVE Creditable(_, _)
Creditable(t, p) ==
    IF p >= Len(Details(t)) THEN 0
    ELSE (IF /\ Details(t)[p + 1].category = "receive"
             /\ p \notin Unknown(t)
             /\ CountRef(credits, t \o <<":", Digit(p)>>) = 0
          THEN Details(t)[p + 1].amount ELSE 0) + Creditable(t, p + 1)

\* C10: in a transaction notification, a receive output whose address is not
\* known gets no Credit and no balance change, and the outputs after it are
\* still handed to process_receive or confirm_send: the total grows by the
\* amounts of the other new receive outputs at most, and by exactly these when
\* no commit fails.
C10_UnknownAddressSkipped ==
    [][\A t \in Txids : (ev'.op = "transaction" /\ ev'.txid = t /\ Unknown(t) # {})
       => /\ \A i \in DOMAIN credits' : i > Len(credits) =>
                /\ credits'[i].address \in {"k1", "k2"}
                /\ \A p \in Unknown(t) : credits'[i].ref_id # t \o <<":", Digit(p)>>
          /\ Balance(hwb').total <= Balance(hwb).total + Creditable(t, 0)
          /\ Failed(ev'.log) = 0 =>
                Balance(hwb').total = Balance(hwb).total + Creditable(t, 0)
          /\ Balance(hwb').available = Balance(hwb).available
          /\ \A p \in Unknown(t) : \A q \in (p + 1)..(Len(Details(t)) - 1) :
                /\ Details(t)[q + 1].category = "receive" =>
                     \E k \in DOMAIN ev'.calls :
                        /\ ev'.calls[k].fn = "process_receive"
                        /\ ev'.calls[k].txid = t \o <<":", Digit(q)>>
                /\ Details(t)[q + 1].category = "send" =>
                     \E k \in DOMAIN ev'.calls :
                        /\ ev'.calls[k].fn = "confirm_send"
                        /\ ev'.calls[k].ref_id = t \o <<":", Digit(q)>>]_vars

\* A notification with an unknown address first has credited the later outputs.
C10_Witness ==
    /\ ev.op = "transaction" /\ Unknown(ev.txid) # {}
    /\ ev.log[1] = <<"address not known. returning.">>
    /\ Len(ev.log) = 3
    /\ \E i \in DOMAIN credits : origin[i] = ev.txid \o <<":", "1">>
    /\ \E i \in DOMAIN credits : origin[i] = ev.txid \o <<":", "4">>

\* What C11 calls decoding to a supported netcode.
Supported(a) == Decodable(a) /\ Netcode(a) \in {"BTC", "XTN"}

\* C11: validate_address(address, network) returns true exactly when the
\* address decodes to one of the netcodes BTC and XTN and, if a network is
\* given, the netcode equals it; when decoding raises or yields no netcode it
\* returns false, and it never raises.
C11_ValidateAddress ==
    [][ev'.op = "validate_address"
       => /\ ~ev'.raised
          /\ ev'.ret = (/\ Supported(ev'.address)
                        /\ (ev'.network = << >> \/ ev'.network = <<Netcode(ev'.address)>>))
          /\ ~Decodable(ev'.address) => ev'.ret = FALSE]_vars

\* A valid BTC address has been refused for the network XTN.
C11_Witness ==
    /\ ev.op = "validate_address" /\ ev.address = <<"1", "m", "1">>
    /\ ev.network = <<"XTN">> /\ ev.ret = FALSE

\* The ref_id C12 expects of a Credit created with ref_id ref: the txid the
\* daemon reports for its transaction and the index ref ends with.
OwnRef(ref) == GetTransaction(SplitTxid(ref)).txid \o <<":", ref[Len(ref)]>>

\* C12: when a block notification confirms a Credit that was created for
\* output i of a transaction, the Credit's rewritten ref_id is "<txid>:<i>",
\* the index of its own output, however many outputs the transaction has.
C12_OwnIndex ==
    [][ev'.op = "block"
       => \A i \in DOMAIN credits :
             (/\ credits[i].transaction_state = "unconfirmed"
              /\ credits'[i].transaction_state = "complete")
                => credits'[i].ref_id = OwnRef(origin[i])]_vars

\* What the daemon reports for the transaction of the Credit created as ref.
Reported(ref) == Confirmations(SplitTxid(ref))

\* C13: a Credit of this module is created complete exactly when the daemon
\* reports at least the threshold of confirmations for its transaction at the
\* notification that creates it, and an unconfirmed Credit becomes complete
\* only in a block notification at which the daemon reports at least the
\* threshold; with fewer confirmations it is created as, and stays,
\* unconfirmed.
C13_CompleteOnlyAtThreshold ==
    [][\A i \in DOMAIN credits' : credits'[i].network = "Bitcoin" =>
          /\ i \notin DOMAIN credits =>
                /\ ev'.op = "transaction"
                /\ credits'[i].transaction_state =
                      IF Reported(origin'[i]) >= CONFS THEN "complete"
                      ELSE "unconfirmed"
          /\ (/\ i \in DOMAIN credits
              /\ credits[i].transaction_state = "unconfirmed"
              /\ credits'[i].transaction_state = "complete")
                => ev'.op = "block" /\ Reported(origin[i]) >= CONFS]_vars

\* A block notification above the watermark has been handled and a Credit
\* whose transaction is not mined yet is still unconfirmed.
C13_Witness ==
    /\ ev.op = "block" /\ ev.log = << >> /\ lastblock = height
    /\ \E i \in DOMAIN credits :
          /\ credits[i].network = "Bitcoin"
          /\ credits[i].transaction_state = "unconfirmed"
          /\ Reported(origin[i]) < CONFS

\* ref is a ref_id of the transaction of old: its txid and one of its outputs.
RefOfSameTx(ref, old) ==
    \E p \in 0..(Len(Details(SplitTxid(old))) - 1) :
        ref = SplitTxid(old) \o <<":", Digit(p)>>

\* C14: the Credit updates of a block notification above the watermark are
\* all or nothing.  If the commit succeeds every unconfirmed Credit that met
\* the threshold is complete with a rewritten ref_id and no other Credit is
\* changed; if it fails every Credit is as it was before.  Either way the
\* notification goes on: the watermark is set and the snapshot is appended
\* unless its own commit fails too.
C14_AllOrNothing ==
    [][(ev'.op = "block" /\ height > lastblock)
       => /\ Len(credits') = Len(credits)
          /\ Failed(ev'.log) = 0 =>
                \A i \in DOMAIN credits :
                    IF Due(credits[i])
                    THEN /\ credits'[i].transaction_state = "complete"
                         /\ RefOfSameTx(credits'[i].ref_id, credits[i].ref_id)
                    ELSE credits'[i] = credits[i]
          /\ Failed(ev'.log) > 0 => credits' = credits
          /\ lastblock' = height
          /\ \/ Len(hwb') = Len(hwb) + 1
             \/ hwb' = hwb /\ faults' - faults > Failed(ev'.log)]_vars

\* The commit of the Credit updates has failed in a block notification: a
\* Credit that met the threshold is still unconfirmed with the ref_id it was
\* created with, and the snapshot has been appended.
C14_Witness ==
    /\ ev.op = "block" /\ ev.log = << <<"exception", "main">> >>
    /\ lastblock = height
    /\ \E i \in DOMAIN credits : Due(credits[i]) /\ credits[i].ref_id = origin[i]
    /\ Len(hwb) = 4
    /\ hwb[4] = [available |-> GetInfo.balance, total |-> GetBalanceRpc,
                 currency |-> "BTC", network |-> "bitcoin"]

\* A block notification that C15 is about, and what C15 says of it.
C15Case == ev'.op = "block" /\ height > lastblock
C15Effect ==
    /\ Len(hwb') = Len(hwb) + 1
    /\ \A i \in DOMAIN hwb : hwb'[i] = hwb[i]
    /\ hwb'[Len(hwb')].available = GetInfo.balance
    /\ hwb'[Len(hwb')].total = GetBalanceRpc
    /\ hwb'[Len(hwb')].network = "bitcoin"
    /\ get_balance(hwb') = [total |-> GetBalanceRpc, available |-> GetInfo.balance]
\* The commit of the snapshot succeeded: every failed commit was a logged one.
SnapshotCommitted == faults' - faults = Failed(ev'.log)

AdjustCommitFailed ==
    /\ ev'.op \in {"adjust_hwbalance", "process_receive", "send_to_address"}
    /\ ev'.op = "send_to_address" => ~ev'.raised
    /\ \E k \in DOMAIN ev'.log : ev'.log[k] = <<"exception", "adjust_hwbalance">>

\* C16: if the commit inside adjust_hwbalance fails, the snapshots are exactly
\* those before the call and nothing is raised: process_receive has still
\* made its Credit (when that commit did not fail as well) and send_to_address
\* still returns the daemon's txid.
C16_FailedAdjustDropped ==
    [][AdjustCommitFailed
       => /\ hwb' = hwb
          /\ (ev'.op = "process_receive" /\ Failed(ev'.log) = 1) =>
                /\ Len(credits') = Len(credits) + 1
                /\ credits'[Len(credits')].ref_id = ev'.txid
          /\ ev'.op = "send_to_address" =>
                /\ Len(sent') = Len(sent) + 1
                /\ ev'.ret = sent'[Len(sent')].txid]_vars

\* process_receive has made its Credit while the commit of the balance
\* adjustment failed: the total is what it was.
C16_Witness ==
    /\ ev.op = "process_receive"
    /\ ev.log = << <<"crediting txid", ev.txid>>, <<"exception", "adjust_hwbalance">> >>
    /\ credits[Len(credits)].ref_id = ev.txid
    /\ get_balance(hwb).total = Funds

\* Process i passed the lookup of its ref_id and its Credit was committed.
Credited(i) ==
    /\ procs[i].pc \in {"credited", "read", "done"}
    /\ procs[i].passed
    /\ procs[i].inserted

\* C17: the lookup of the ref_id does not keep two invocations of
\* process_receive that run at the same time from both crediting it: when
\* either has passed the lookup and committed its Credit, two Credits have
\* the ref_id, and once both have returned with no commit failed the total has
\* grown by the amount once (one update lost) or twice.
C17_BothPassBothCredit ==
    \A i, j \in Procs :
        (i # j /\ Credited(i) /\ Credited(j) /\ procs[i].txid = procs[j].txid)
           => /\ CountRef(credits, procs[i].txid) = 2
              /\ (procs[i].pc = "done" /\ procs[j].pc = "done" /\ faults = 0)
                    => get_balance(hwb).total \in
                          {Funds + procs[i].details.amount,
                           Funds + 2 * procs[i].details.amount}

\* Both invocations have returned: two Credits have the same ref_id and the
\* total has grown by the amount twice.
C17_Witness ==
    /\ \A i \in Procs : procs[i].pc = "done" /\ procs[i].passed
    /\ procs[1].txid = procs[2].txid
    /\ CountRef(credits, procs[1].txid) = 2
    /\ get_balance(hwb).total = Funds + 2 * procs[1].details.amount

\* The calls main made for the ref_id ref.
CallsFor(calls, ref) ==
    {k \in DOMAIN calls :
        \/ calls[k].fn = "confirm_send" /\ calls[k].ref_id = ref
        \/ calls[k].fn = "process_receive" /\ calls[k].txid = ref}
\* What C18 says of output p of t in a notification that made these calls.
C18Output(t, p, calls) ==
    LET put == Details(t)[p + 1]
        ref == t \o <<":", Digit(p)>>
        mine == CallsFor(calls, ref)
    IN IF put.category = "send"
       THEN /\ Cardinality(mine) = 1
            /\ \A k \in mine : calls[k] = [fn |-> "confirm_send", address |-> put.address,
                                           amount |-> put.amount, ref_id |-> ref]
       ELSE IF put.category = "receive"
       THEN /\ Cardinality(mine) = 1
            /\ \A k \in mine :
                  /\ calls[k].fn = "process_receive"
                  /\ calls[k].details = put
       ELSE /\ mine = {}
            /\ \A i \in DOMAIN credits' : i > Len(credits) => credits'[i].ref_id # ref

\* C18: in a transaction notification for T, every send output at position p
\* gets exactly one call of confirm_send with its address, its amount and
\* ref_id "T:p", every receive output exactly one call of process_receive with
\* "T:p" and its details, and an output of another category no call and no
\* Credit; the balance changes by amounts of receive outputs only.
C18_DispatchByCategory ==
    [][\A t \in Txids : (ev'.op = "transaction" /\ ev'.txid = t)
       => /\ \A p \in 0..(Len(Details(t)) - 1) : C18Output(t, p, ev'.calls)
          /\ \A k \in DOMAIN ev'.calls :
                \E p \in 0..(Len(Details(t)) - 1) :
                    k \in CallsFor(ev'.calls, t \o <<":", Digit(p)>>)
          /\ Balance(hwb').total <= Balance(hwb).total + Creditable(t, 0)
          /\ Failed(ev'.log) = 0 =>
                Balance(hwb').total = Balance(hwb).total + Creditable(t, 0)
          /\ Balance(hwb').available = Balance(hwb).available]_vars

\* A notification for the transaction with a send, a generate and three
\* receive outputs has made its four calls.
C18_Witness ==
    /\ ev.op = "transaction" /\ Len(Details(ev.txid)) = 5
    /\ Len(ev.calls) = 4
    /\ ev.calls[3] = [fn |-> "confirm_send", address |-> "x1", amount |-> 1,
                      ref_id |-> <<"b", ":", "2">>]
    /\ ev.calls[4].fn = "process_receive" /\ ev.calls[4].txid = <<"b", ":", "4">>

\* A Credit without its ref_id and its state.
Payload(c) ==
    [amount |-> c.amount, address |-> c.address, currency |-> c.currency,
     network |-> c.network, reference |-> c.reference, user_id |-> c.user_id]

\* C19: no notification deletes a Credit or moves one from complete back to
\* unconfirmed, whatever the daemon reports later; the only change of state of
\* an existing Credit is unconfirmed -> complete, made by a block notification,
\* and a complete Credit is not changed at all.
C19_CreditsOnlyAdvance ==
    [][/\ Len(credits') >= Len(credits)
       /\ \A i \in DOMAIN credits :
             /\ Payload(credits'[i]) = Payload(credits[i])
             /\ credits[i].transaction_state = "complete" => credits'[i] = credits[i]
             /\ credits'[i].transaction_state # credits[i].transaction_state =>
                   /\ credits[i].transaction_state = "unconfirmed"
                   /\ credits'[i].transaction_state = "complete"
                   /\ ev'.op = "block"]_vars

\* A block notification above the watermark has been handled while the daemon
\* reports no confirmation any more for the transaction of a complete Credit.
C19_Witness ==
    /\ ev.op = "block" /\ lastblock = height
    /\ hwb[Len(hwb)].total > hwb[Len(hwb)].available
    /\ \E i \in DOMAIN credits :
          /\ credits[i].network = "Bitcoin"
          /\ credits[i].transaction_state = "complete"
          /\ Reported(origin[i]) < CONFS

\* C20: when the daemon's sendtoaddress fails, the amount being more than the
\* wallet holds, send_to_address raises and returns no txid, and the snapshots
\* are as before; a send changes them only after the daemon accepted it.
C20_FailedSendPropagates ==
    [][ev'.op = "send_to_address"
       => /\ ev'.amount > GetInfo.balance => ev'.raised
          /\ ev'.raised =>
                /\ "ret" \notin DOMAIN ev'
                /\ hwb' = hwb /\ sent' = sent /\ credits' = credits
          /\ hwb' # hwb => Len(sent') = Len(sent) + 1]_vars

\* A send of more than the wallet holds has been refused.
C20_Witness ==
    /\ ev.op = "send_to_address" /\ ev.raised
    /\ ev.amount > GetInfo.balance
    /\ sent = << >>

====
